---- MODULE Spec2Model ----
(***************************************************************************)
(* svc-gateway: the Express application of src/src/app.js.                 *)
(*                                                                         *)
(* Each inbound request runs through the middleware stack in registration  *)
(* order: cors, the operational endpoints, the mounted route rules         *)
(* (requireAuth, requireRoleForWrite, the /api/lectures classifier, the    *)
(* proxy instances built by makeProxy) and the error-handling middleware.  *)
(* Strings that the code inspects character by character (URLs, mount      *)
(* prefixes, the classifier's needles) are sequences of one-character      *)
(* strings, so that String.includes and the path rewrite are computed, not *)
(* assumed.  The documentation endpoints (/docs/gateway) are not modelled. *)
(***************************************************************************)
EXTENDS Integers, Sequences, FiniteSets, TLC

----------------------------------------------------------------------------
(* Bounds of the model *)

\* request slots of the concurrent specification
MaxReq == 2
\* path chunks appended to a mount prefix to build an inbound URL
MaxChunks == 2

----------------------------------------------------------------------------
(* String literals of app.js, as character sequences *)

MOUNT_COURSES == <<"/", "a", "p", "i", "/", "c", "o", "u", "r", "s", "e", "s">>
MOUNT_LECTURES == <<"/", "a", "p", "i", "/", "l", "e", "c", "t", "u", "r", "e", "s">>
MOUNT_UPLOADS == <<"/", "a", "p", "i", "/", "u", "p", "l", "o", "a", "d", "s">>
MOUNT_TRANSCRIPTIONS == <<"/", "a", "p", "i", "/", "t", "r", "a", "n", "s", "c", "r", "i", "p", "t", "i", "o", "n", "s">>
MOUNT_USERS == <<"/", "a", "p", "i", "/", "u", "s", "e", "r", "s">>
MOUNT_VIDEOS == <<"/", "a", "p", "i", "/", "v", "i", "d", "e", "o", "s">>
MOUNT_FORUM == <<"/", "a", "p", "i", "/", "f", "o", "r", "u", "m">>
PREFIX_API == <<"/", "a", "p", "i">>
PATH_HEALTHZ == <<"/", "h", "e", "a", "l", "t", "h", "z">>
PATH_READYZ == <<"/", "r", "e", "a", "d", "y", "z">>
PATH_METRICS == <<"/", "m", "e", "t", "r", "i", "c", "s">>
NEEDLE_UPLOAD == <<"/", "u", "p", "l", "o", "a", "d">>
NEEDLE_NOTES == <<"/", "n", "o", "t", "e", "s">>
NEEDLE_TRANSCRIBE == <<"/", "t", "r", "a", "n", "s", "c", "r", "i", "b", "e">>
SLASH == <<"/">>

\* FORUM_INTERNAL_TOKEN = env("FORUM_INTERNAL_TOKEN"): required, so never empty
FORUM_INTERNAL_TOKEN == "forum-secret"
\* CORS_ORIGINS with process.env.CORS_ORIGINS unset
CORS_ORIGINS == {"http://localhost:3003", "http://localhost:3000"}

----------------------------------------------------------------------------
(* Inputs *)

\* a URL outside every registered route
PATH_OTHER == <<"/", "n", "o", "p", "e">>
\* sub-path chunks: the three needles, a needle in another case, an id
CHUNK_ID == <<"/", "4", "2">>
CHUNK_NOTES_UPPER == <<"/", "N", "o", "t", "e", "s">>
Chunks == {NEEDLE_UPLOAD, NEEDLE_NOTES, NEEDLE_TRANSCRIBE, CHUNK_NOTES_UPPER, CHUNK_ID}

RECURSIVE SubPathsOf(_)
SubPathsOf(n) ==
    IF n = 0 THEN {<<>>}
    ELSE LET shorter == SubPathsOf(n - 1)
         IN  shorter \cup {p \o c : p \in shorter, c \in Chunks}

SubPaths == SubPathsOf(MaxChunks)

MountPrefixes == {MOUNT_COURSES, MOUNT_LECTURES, MOUNT_UPLOADS, MOUNT_TRANSCRIPTIONS,
                  MOUNT_USERS, MOUNT_VIDEOS, MOUNT_FORUM}

\* /api/lectures, whose handler inspects the sub-path, gets every sub-path;
\* the other mounts get those of at most one chunk
Urls == {MOUNT_LECTURES \o p : p \in SubPaths}
          \cup {m \o p : m \in MountPrefixes, p \in SubPathsOf(1)}
          \cup {PATH_HEALTHZ, PATH_READYZ, PATH_METRICS, PATH_OTHER}

Methods == {"GET", "HEAD", "OPTIONS", "POST", "PUT", "PATCH", "DELETE"}

\* the Origin header: absent, on the allow-list, not on it
NoHeader == "absent"
Origins == {NoHeader, "http://localhost:3003", "http://evil.example"}

\* the bearer credential: absent, malformed, or verifying to an identity
Credentials == {"none", "malformed", "token-student", "token-professor"}

\* x-internal-token and x-user-sub as the client may send them
ClientTokens == {NoHeader, "client-token"}
ClientSubs == {NoHeader, "client-sub"}

\* how the upstream of a dispatch behaves, and the statuses it answers with
UpstreamModes == {"answers", "refuses", "silent"}
UpstreamStatuses == {200, 404}

----------------------------------------------------------------------------
(* String helpers, computed character by character *)

\* s.startsWith(pre)
StartsWith(s, pre) ==
    /\ Len(pre) <= Len(s)
    /\ \A k \in 1..Len(pre) : s[k] = pre[k]

\* String.prototype.includes: needle occurs at some offset of s
Includes(s, needle) ==
    \E off \in 0..(Len(s) - Len(needle)) :
        \A k \in 1..Len(needle) : s[off + k] = needle[k]

\* s with its first n characters removed
Drop(s, n) == SubSeq(s, n + 1, Len(s))

----------------------------------------------------------------------------
(* Configuration built at module load *)

ServiceNames == {"courses", "notes", "users", "forum", "transcriptions", "video-upload"}

\* upstreamPrefix undefined and opts.internalToken undefined are both falsy:
\* the empty sequence and the empty string stand for them
NoPrefix == <<>>
NoToken == ""

\* the proxy instances: makeProxy(target, serviceName, upstreamPrefix, opts)
Proxy ==
    [coursesProxy |-> [target |-> "COURSES_URL", serviceName |-> "courses",
                       upstreamPrefix |-> MOUNT_COURSES, internalToken |-> NoToken],
     lecturesProxy |-> [target |-> "COURSES_URL", serviceName |-> "courses",
                        upstreamPrefix |-> MOUNT_LECTURES, internalToken |-> NoToken],
     notesProxy |-> [target |-> "NOTES_URL", serviceName |-> "notes",
                     upstreamPrefix |-> MOUNT_LECTURES, internalToken |-> NoToken],
     usersProxy |-> [target |-> "USERS_URL", serviceName |-> "users",
                     upstreamPrefix |-> MOUNT_USERS, internalToken |-> NoToken],
     forumProxy |-> [target |-> "FORUM_URL", serviceName |-> "forum",
                     upstreamPrefix |-> PREFIX_API, internalToken |-> FORUM_INTERNAL_TOKEN],
     transcriptionsProxy |-> [target |-> "TRANSCRIPTIONS_URL", serviceName |-> "transcriptions",
                              upstreamPrefix |-> NoPrefix, internalToken |-> NoToken],
     videoUploadProxy |-> [target |-> "VIDEO_UPLOAD_URL", serviceName |-> "video-upload",
                           upstreamPrefix |-> NoPrefix, internalToken |-> NoToken],
     uploadsProxy |-> [target |-> "VIDEO_UPLOAD_URL", serviceName |-> "video-upload",
                       upstreamPrefix |-> MOUNT_UPLOADS, internalToken |-> NoToken],
     videosProxy |-> [target |-> "VIDEO_UPLOAD_URL", serviceName |-> "video-upload",
                      upstreamPrefix |-> MOUNT_VIDEOS, internalToken |-> NoToken]]

ProxyNames == DOMAIN Proxy

\* pathRewrite: upstreamPrefix ? (path) => `${upstreamPrefix}${path}` : undefined
PathRewrite_double(p, path) ==
    IF Proxy[p].upstreamPrefix # NoPrefix
    THEN Proxy[p].upstreamPrefix \o Proxy[p].upstreamPrefix \o path
    ELSE path

PathRewrite_noPrefix(p, path) == path

PathRewrite(p, path) ==
    IF Proxy[p].upstreamPrefix # NoPrefix
    THEN Proxy[p].upstreamPrefix \o path
    ELSE path

\* the earlier variant of makeProxy: pathRewrite: (path, req) =>
\* `${req.baseUrl}${path}`
PathRewriteDynamic(baseUrl, path) == baseUrl \o path

\* the handler of the /api/lectures mount: the proxies it calls for a path,
\* in call order (each branch returns, so exactly one)
LecturesClassifier_notesFirst(path) ==
    IF Includes(path, NEEDLE_NOTES) THEN <<"notesProxy">>
    ELSE IF Includes(path, NEEDLE_UPLOAD) THEN <<"videoUploadProxy">>
    ELSE IF Includes(path, NEEDLE_TRANSCRIBE) THEN <<"transcriptionsProxy">>
    ELSE <<"lecturesProxy">>

LecturesClassifier_fallThrough(path) ==
    (IF Includes(path, NEEDLE_UPLOAD) THEN <<"videoUploadProxy">> ELSE <<>>)
    \o (IF Includes(path, NEEDLE_NOTES) THEN <<"notesProxy">>
        ELSE IF Includes(path, NEEDLE_TRANSCRIBE) THEN <<"transcriptionsProxy">>
        ELSE <<"lecturesProxy">>)

LecturesClassifier(path) ==
    IF Includes(path, NEEDLE_UPLOAD) THEN <<"videoUploadProxy">>
    ELSE IF Includes(path, NEEDLE_NOTES) THEN <<"notesProxy">>
    ELSE IF Includes(path, NEEDLE_TRANSCRIBE) THEN <<"transcriptionsProxy">>
    ELSE <<"lecturesProxy">>

\* the route mounts in registration order: app.use(mount, [requireAuth()],
\* [requireRoleForWrite(role)], handler)
NoRole == ""
Stack_usersOpen ==
    << [mount |-> MOUNT_COURSES, auth |-> TRUE, role |-> "professor", handler |-> "coursesProxy"],
       [mount |-> MOUNT_LECTURES, auth |-> TRUE, role |-> NoRole, handler |-> "classifier"],
       [mount |-> MOUNT_UPLOADS, auth |-> TRUE, role |-> NoRole, handler |-> "uploadsProxy"],
       [mount |-> MOUNT_TRANSCRIPTIONS, auth |-> TRUE, role |-> NoRole, handler |-> "transcriptionsProxy"],
       [mount |-> MOUNT_USERS, auth |-> FALSE, role |-> NoRole, handler |-> "usersProxy"],
       [mount |-> MOUNT_TRANSCRIPTIONS, auth |-> TRUE, role |-> NoRole, handler |-> "transcriptionsProxy"],
       [mount |-> MOUNT_VIDEOS, auth |-> FALSE, role |-> NoRole, handler |-> "videosProxy"],
       [mount |-> MOUNT_FORUM, auth |-> TRUE, role |-> NoRole, handler |-> "forumProxy"] >>

Stack_coursesAnyRole ==
    << [mount |-> MOUNT_COURSES, auth |-> TRUE, role |-> NoRole, handler |-> "coursesProxy"],
       [mount |-> MOUNT_LECTURES, auth |-> TRUE, role |-> NoRole, handler |-> "classifier"],
       [mount |-> MOUNT_UPLOADS, auth |-> TRUE, role |-> NoRole, handler |-> "uploadsProxy"],
       [mount |-> MOUNT_TRANSCRIPTIONS, auth |-> TRUE, role |-> NoRole, handler |-> "transcriptionsProxy"],
       [mount |-> MOUNT_USERS, auth |-> TRUE, role |-> NoRole, handler |-> "usersProxy"],
       [mount |-> MOUNT_TRANSCRIPTIONS, auth |-> TRUE, role |-> NoRole, handler |-> "transcriptionsProxy"],
       [mount |-> MOUNT_VIDEOS, auth |-> FALSE, role |-> NoRole, handler |-> "videosProxy"],
       [mount |-> MOUNT_FORUM, auth |-> TRUE, role |-> NoRole, handler |-> "forumProxy"] >>

Stack ==
    << [mount |-> MOUNT_COURSES, auth |-> TRUE, role |-> "professor", handler |-> "coursesProxy"],
       [mount |-> MOUNT_LECTURES, auth |-> TRUE, role |-> NoRole, handler |-> "classifier"],
       [mount |-> MOUNT_UPLOADS, auth |-> TRUE, role |-> NoRole, handler |-> "uploadsProxy"],
       [mount |-> MOUNT_TRANSCRIPTIONS, auth |-> TRUE, role |-> NoRole, handler |-> "transcriptionsProxy"],
       [mount |-> MOUNT_USERS, auth |-> TRUE, role |-> NoRole, handler |-> "usersProxy"],
       [mount |-> MOUNT_TRANSCRIPTIONS, auth |-> TRUE, role |-> NoRole, handler |-> "transcriptionsProxy"],
       [mount |-> MOUNT_VIDEOS, auth |-> FALSE, role |-> NoRole, handler |-> "videosProxy"],
       [mount |-> MOUNT_FORUM, auth |-> TRUE, role |-> NoRole, handler |-> "forumProxy"] >>

\* Express matches a mount at a segment boundary of the URL
MountMatches(mount, url) ==
    /\ StartsWith(url, mount)
    /\ Len(url) = Len(mount) \/ url[Len(mount) + 1] = "/"

\* the layers of the stack, from layer `from` on, that match the URL
MatchingLayers(url, from) ==
    {k \in from..Len(Stack) : MountMatches(Stack[k].mount, url)}

Min(S) == CHOOSE x \in S : \A y \in S : x <= y

\* inside a mount Express strips the mount from req.url, leaving "/" when
\* nothing follows it
StrippedUrl(mount, url) ==
    IF Len(url) = Len(mount) THEN SLASH ELSE Drop(url, Len(mount))

\* the proxies a layer's handler calls for the stripped path
Invoked(layer, path) ==
    IF layer.handler = "classifier" THEN LecturesClassifier(path)
    ELSE <<layer.handler>>

----------------------------------------------------------------------------
(* auth.js: requireAuth and requireRoleForWrite *)

NoUser == [sub |-> "", role |-> ""]

\* the identity a bearer credential verifies to
Verify(cred) ==
    CASE cred = "token-student" -> [sub |-> "sub-student", role |-> "student"]
      [] cred = "token-professor" -> [sub |-> "sub-professor", role |-> "professor"]
      [] OTHER -> NoUser

ValidCredential(cred) == Verify(cred) # NoUser

WriteMethods == {"POST", "PUT", "PATCH", "DELETE"}

----------------------------------------------------------------------------
(* State *)

VARIABLES
    req,                    \* per slot: the inbound request
    phase,                  \* per slot: where the request is in the pipeline
    layer,                  \* per slot: the layer of Stack handling it (0: none)
    user,                   \* per slot: req.user
    startTime,              \* per slot: whether req._startTime is set
    out,                    \* per slot: the outbound requests created for it
    responses,              \* per slot: the statuses written back to the client
    trace,                  \* per slot: its metrics and forwarding events, in order
    proxiedCounter,         \* svc_gateway_proxied_requests_total
    responseTimeHistogram,  \* svc_gateway_response_time_seconds (observations)
    body,                   \* per slot: the body last written to the client
    err,                    \* per slot: the error passed to next(err)
    client,                 \* per slot: whether the client is still connected
    environ,                \* process.env, per variable: unset, empty or set
    proc                    \* the process: starting, listening or exited

vars == <<req, phase, layer, user, startTime, out, responses, trace,
          proxiedCounter, responseTimeHistogram, body, err, client, environ, proc>>

\* the state no request handler touches
process == <<environ, proc>>

Slots == 1..MaxReq

NoReq == [method |-> "", url |-> <<>>, origin |-> NoHeader, cred |-> "none",
          xInternalToken |-> NoHeader, xUserSub |-> NoHeader]

\* statuses the gateway writes itself, and those an upstream may answer with
Statuses == UpstreamStatuses \cup {204, 401, 403, 500, 504}

CounterLabels == ServiceNames \X Methods
HistogramLabels == ServiceNames \X Methods \X UpstreamStatuses

\* the variables env() is called for, and process.env.CORS_ORIGINS
EnvNames == {"PORT", "COURSES_URL", "NOTES_URL", "USERS_URL", "TRANSCRIPTIONS_URL",
             "VIDEO_UPLOAD_URL", "FORUM_URL", "FORUM_INTERNAL_TOKEN", "CORS_ORIGINS"}
EnvValues == {"unset", "empty", "set"}

\* env(name) without a fallback: throws when the variable is unset or ""
RequiredEnv == {"COURSES_URL", "NOTES_URL", "USERS_URL", "TRANSCRIPTIONS_URL",
                "VIDEO_UPLOAD_URL", "FORUM_URL", "FORUM_INTERNAL_TOKEN"}

\* raw === undefined || raw === null || raw === ""
EnvMissing(e, name) == e[name] \in {"unset", "empty"}

NoBody == ""
NoError == ""

\* no request yet, no metric recorded
InitRequests ==
    /\ req = [r \in Slots |-> NoReq]
    /\ phase = [r \in Slots |-> "idle"]
    /\ layer = [r \in Slots |-> 0]
    /\ user = [r \in Slots |-> NoUser]
    /\ startTime = [r \in Slots |-> "unset"]
    /\ out = [r \in Slots |-> <<>>]
    /\ responses = [r \in Slots |-> <<>>]
    /\ trace = [r \in Slots |-> <<>>]
    /\ proxiedCounter = [l \in CounterLabels |-> 0]
    /\ responseTimeHistogram = [l \in HistogramLabels |-> 0]
    /\ body = [r \in Slots |-> NoBody]
    /\ err = [r \in Slots |-> NoError]
    /\ client = [r \in Slots |-> "connected"]

\* the gateway listening, started with every variable set
Init ==
    /\ InitRequests
    /\ environ = [n \in EnvNames |-> "set"]
    /\ proc = "listening"

\* the process before the module is loaded, under any environment
InitStartup ==
    /\ InitRequests
    /\ environ \in [EnvNames -> EnvValues]
    /\ proc = "starting"

\* proxiedCounter.inc({ service, method })
Inc_lost(counter, service, method) ==
    [counter EXCEPT ![<<service, method>>] = 1]

Inc(counter, service, method) ==
    [counter EXCEPT ![<<service, method>>] = @ + 1]

\* responseTimeHistogram.observe({ service, method, status_code }, duration)
Observe_twice(histogram, service, method, status) ==
    [histogram EXCEPT ![<<service, method, status>>] = @ + 2]

Observe(histogram, service, method, status) ==
    [histogram EXCEPT ![<<service, method, status>>] = @ + 1]

\* the handler ends the response of slot r with a status
Respond(r, status) ==
    /\ responses' = [responses EXCEPT ![r] = Append(@, status)]
    /\ phase' = [phase EXCEPT ![r] = "done"]

\* the bodies the handlers write
BODY_HEALTHZ == "OK"
BODY_READYZ == "READY"
BODY_ERROR == "{\"error\":\"Internal server error\"}"
BODY_METRICS == "metrics exposition"
BODY_NOT_FOUND == "Cannot route"
BODY_PROXY_ERROR == "Error occurred while trying to proxy"
BODY_UPSTREAM == "upstream body"
BODY_UNAUTHORIZED == "unauthorized"
BODY_FORBIDDEN == "forbidden"
ERR_CORS == "Not allowed by CORS"

\* the handler ends the response of slot r with a status and a body
Reply(r, status, text) ==
    /\ Respond(r, status)
    /\ body' = [body EXCEPT ![r] = text]

----------------------------------------------------------------------------
(* Operations *)

\* a client sends a request
Arrive(r, methods, urls, origins, creds, tokens, subs) ==
    /\ proc = "listening"
    /\ phase[r] = "idle"
    /\ \E m \in methods, u \in urls, o \in origins, c \in creds,
          t \in tokens, s \in subs :
          req' = [req EXCEPT ![r] = [method |-> m, url |-> u, origin |-> o, cred |-> c,
                                     xInternalToken |-> t, xUserSub |-> s]]
    /\ phase' = [phase EXCEPT ![r] = "cors"]
    /\ UNCHANGED <<layer, user, startTime, out, responses, trace,
                   proxiedCounter, responseTimeHistogram>>
    /\ UNCHANGED <<body, err, client>>
    /\ UNCHANGED process

\* corsOptions.origin
OriginAllowed_strict(origin) == origin \in CORS_ORIGINS

OriginAllowed(origin) == origin = NoHeader \/ origin \in CORS_ORIGINS

\* app.use(cors(corsOptions)): a refused origin is passed to next(err); an
\* OPTIONS request is answered as a pre-flight (204); the rest goes on
Cors(r) ==
    /\ phase[r] = "cors"
    /\ IF ~OriginAllowed(req[r].origin)
       THEN /\ phase' = [phase EXCEPT ![r] = "error"]
            /\ err' = [err EXCEPT ![r] = ERR_CORS]
            /\ UNCHANGED <<responses, body>>
       ELSE IF req[r].method = "OPTIONS"
       THEN /\ Reply(r, 204, NoBody)
            /\ UNCHANGED err
       ELSE /\ phase' = [phase EXCEPT ![r] = "route"]
            /\ UNCHANGED <<responses, body, err>>
    /\ UNCHANGED <<req, layer, user, startTime, out, trace,
                   proxiedCounter, responseTimeHistogram>>
    /\ UNCHANGED client
    /\ UNCHANGED process

\* app.get(path, ...) serves GET and HEAD
IsGet(r) == req[r].method \in {"GET", "HEAD"}

\* app.get("/metrics", ...)
Metrics(r) ==
    /\ phase[r] = "route"
    /\ IsGet(r) /\ req[r].url = PATH_METRICS
    /\ Reply(r, 200, BODY_METRICS)
    /\ UNCHANGED <<req, layer, user, startTime, out, trace,
                   proxiedCounter, responseTimeHistogram>>
    /\ UNCHANGED <<err, client>>
    /\ UNCHANGED process

\* app.get("/healthz", ...)
Healthz(r) ==
    /\ phase[r] = "route"
    /\ IsGet(r) /\ req[r].url = PATH_HEALTHZ
    /\ Reply(r, 200, BODY_HEALTHZ)
    /\ UNCHANGED <<req, layer, user, startTime, out, trace,
                   proxiedCounter, responseTimeHistogram>>
    /\ UNCHANGED <<err, client>>
    /\ UNCHANGED process

\* app.get("/readyz", ...)
Readyz(r) ==
    /\ phase[r] = "route"
    /\ IsGet(r) /\ req[r].url = PATH_READYZ
    /\ Reply(r, 200, BODY_READYZ)
    /\ UNCHANGED <<req, layer, user, startTime, out, trace,
                   proxiedCounter, responseTimeHistogram>>
    /\ UNCHANGED <<err, client>>
    /\ UNCHANGED process

OperationalUrl(r) ==
    IsGet(r) /\ req[r].url \in {PATH_METRICS, PATH_HEALTHZ, PATH_READYZ}

\* the router enters the first mount, after the current layer, that matches
EnterMount(r) ==
    /\ phase[r] = "route"
    /\ ~OperationalUrl(r)
    /\ MatchingLayers(req[r].url, layer[r] + 1) # {}
    /\ LET k == Min(MatchingLayers(req[r].url, layer[r] + 1))
       IN  /\ layer' = [layer EXCEPT ![r] = k]
           /\ phase' = [phase EXCEPT ![r] =
                           IF Stack[k].auth THEN "auth"
                           ELSE IF Stack[k].role # NoRole THEN "role"
                           ELSE "handler"]
    /\ UNCHANGED <<req, user, startTime, out, responses, trace,
                   proxiedCounter, responseTimeHistogram>>
    /\ UNCHANGED <<body, err, client>>
    /\ UNCHANGED process

\* no route is left: Express answers 404
NotFound(r) ==
    /\ phase[r] = "route"
    /\ ~OperationalUrl(r)
    /\ MatchingLayers(req[r].url, layer[r] + 1) = {}
    /\ Reply(r, 404, BODY_NOT_FOUND)
    /\ UNCHANGED <<req, layer, user, startTime, out, trace,
                   proxiedCounter, responseTimeHistogram>>
    /\ UNCHANGED <<err, client>>
    /\ UNCHANGED process

\* requireAuth(): 401 without a valid credential, else req.user is set
RequireAuth(r) ==
    /\ phase[r] = "auth"
    /\ IF ValidCredential(req[r].cred)
       THEN /\ user' = [user EXCEPT ![r] = Verify(req[r].cred)]
            /\ phase' = [phase EXCEPT ![r] =
                            IF Stack[layer[r]].role # NoRole THEN "role" ELSE "handler"]
            /\ UNCHANGED <<responses, body>>
       ELSE /\ Reply(r, 401, BODY_UNAUTHORIZED)
            /\ UNCHANGED user
    /\ UNCHANGED <<req, layer, startTime, out, trace,
                   proxiedCounter, responseTimeHistogram>>
    /\ UNCHANGED <<err, client>>
    /\ UNCHANGED process

\* requireRoleForWrite(role): 403 for a write method without the role
RequireRoleForWrite(r) ==
    /\ phase[r] = "role"
    /\ IF req[r].method \in WriteMethods /\ user[r].role # Stack[layer[r]].role
       THEN Reply(r, 403, BODY_FORBIDDEN)
       ELSE /\ phase' = [phase EXCEPT ![r] = "handler"]
            /\ UNCHANGED <<responses, body>>
    /\ UNCHANGED <<req, layer, user, startTime, out, trace,
                   proxiedCounter, responseTimeHistogram>>
    /\ UNCHANGED <<err, client>>
    /\ UNCHANGED process

\* the mount's handler runs: the classifier picks the proxy for /api/lectures,
\* the proxy middleware rewrites the path and creates the outbound request,
\* which starts as a copy of the inbound headers
MountHandler(r) ==
    /\ phase[r] = "handler"
    /\ LET path == StrippedUrl(Stack[layer[r]].mount, req[r].url)
           called == Invoked(Stack[layer[r]], path)
       IN  \E mode \in UpstreamModes :
              out' = [out EXCEPT ![r] =
                         [i \in 1..Len(called) |->
                             [proxy |-> called[i],
                              path |-> PathRewrite(called[i], path),
                              xInternalToken |-> req[r].xInternalToken,
                              xUserSub |-> req[r].xUserSub,
                              mode |-> mode,
                              state |-> "created",
                              status |-> 0,
                              aborted |-> FALSE]]]
    /\ phase' = [phase EXCEPT ![r] = "proxying"]
    /\ UNCHANGED <<req, layer, user, startTime, responses, trace,
                   proxiedCounter, responseTimeHistogram>>
    /\ UNCHANGED <<body, err, client>>
    /\ UNCHANGED process

\* on.proxyReq: the outbound request has its socket, nothing is written yet
ProxyReq_uncounted(r, i) ==
    /\ i \in DOMAIN out[r]
    /\ out[r][i].state = "created"
    /\ startTime' = [startTime EXCEPT ![r] = "set"]
    /\ UNCHANGED proxiedCounter
    /\ out' = [out EXCEPT ![r][i].state = "counted"]
    /\ trace' = [trace EXCEPT ![r] = @ \o <<"startTime", "setHeaders">>]
    /\ UNCHANGED <<req, phase, layer, user, responses, responseTimeHistogram>>
    /\ UNCHANGED <<body, err, client>>
    /\ UNCHANGED process

ProxyReq(r, i) ==
    /\ i \in DOMAIN out[r]
    /\ out[r][i].state = "created"
    /\ startTime' = [startTime EXCEPT ![r] = "set"]
    /\ proxiedCounter' = Inc(proxiedCounter, Proxy[out[r][i].proxy].serviceName,
                             req[r].method)
    /\ out' = [out EXCEPT
                  ![r][i].xUserSub =
                      IF user[r].sub # "" THEN user[r].sub ELSE @,
                  ![r][i].xInternalToken =
                      IF Proxy[out[r][i].proxy].internalToken # NoToken
                      THEN Proxy[out[r][i].proxy].internalToken ELSE @,
                  ![r][i].state = "counted"]
    /\ trace' = [trace EXCEPT ![r] = @ \o <<"startTime", "inc", "setHeaders">>]
    /\ UNCHANGED <<req, phase, layer, user, responses, responseTimeHistogram>>
    /\ UNCHANGED <<body, err, client>>
    /\ UNCHANGED process

\* the upstream accepted the connection: the outbound request is written
Forward(r, i) ==
    /\ i \in DOMAIN out[r]
    /\ out[r][i].state = "counted"
    /\ ~out[r][i].aborted
    /\ out[r][i].mode \in {"answers", "silent"}
    /\ out' = [out EXCEPT ![r][i].state = "sent"]
    /\ trace' = [trace EXCEPT ![r] = Append(@, "forward")]
    /\ UNCHANGED <<req, phase, layer, user, startTime, responses,
                   proxiedCounter, responseTimeHistogram>>
    /\ UNCHANGED <<body, err, client>>
    /\ UNCHANGED process

\* the upstream refused the connection: the proxy's error event, which the
\* proxy middleware answers with 504 (makeProxy registers no error handler)
ProxyError(r, i) ==
    /\ i \in DOMAIN out[r]
    /\ out[r][i].state = "counted"
    /\ ~out[r][i].aborted
    /\ out[r][i].mode = "refuses"
    /\ out' = [out EXCEPT ![r][i].state = "failed"]
    /\ trace' = [trace EXCEPT ![r] = Append(@, "error")]
    /\ Reply(r, 504, BODY_PROXY_ERROR)
    /\ UNCHANGED <<req, layer, user, startTime,
                   proxiedCounter, responseTimeHistogram>>
    /\ UNCHANGED <<err, client>>
    /\ UNCHANGED process

\* on.proxyRes: the upstream's response headers arrived; the duration is
\* observed and the response is streamed back to the client
ProxyRes_afterAbort(r, i) ==
    /\ i \in DOMAIN out[r]
    /\ out[r][i].state = "sent"
    /\ out[r][i].mode = "answers"
    /\ \E st \in UpstreamStatuses :
          /\ out' = [out EXCEPT ![r][i].state = "answered", ![r][i].status = st]
          /\ responseTimeHistogram' =
                 Observe(responseTimeHistogram,
                         Proxy[out[r][i].proxy].serviceName, req[r].method, st)
          /\ Reply(r, st, BODY_UPSTREAM)
    /\ trace' = [trace EXCEPT ![r] = @ \o <<"resHeaders", "observe">>]
    /\ UNCHANGED <<req, layer, user, startTime, proxiedCounter>>
    /\ UNCHANGED <<err, client>>
    /\ UNCHANGED process

ProxyRes(r, i) ==
    /\ i \in DOMAIN out[r]
    /\ out[r][i].state = "sent"
    /\ ~out[r][i].aborted
    /\ out[r][i].mode = "answers"
    /\ \E st \in UpstreamStatuses :
          /\ out' = [out EXCEPT ![r][i].state = "answered", ![r][i].status = st]
          /\ responseTimeHistogram' =
                 Observe(responseTimeHistogram,
                         Proxy[out[r][i].proxy].serviceName, req[r].method, st)
          /\ Reply(r, st, BODY_UPSTREAM)
    /\ trace' = [trace EXCEPT ![r] = @ \o <<"resHeaders", "observe">>]
    /\ UNCHANGED <<req, layer, user, startTime, proxiedCounter>>
    /\ UNCHANGED <<err, client>>
    /\ UNCHANGED process

\* app.use((err, _req, res, _next) => ...): 500 with the generic body
ErrorHandler_leaks(r) ==
    /\ phase[r] = "error"
    /\ Reply(r, 500, err[r])
    /\ UNCHANGED <<req, layer, user, startTime, out, trace,
                   proxiedCounter, responseTimeHistogram>>
    /\ UNCHANGED <<err, client>>
    /\ UNCHANGED process

ErrorHandler(r) ==
    /\ phase[r] = "error"
    /\ Reply(r, 500, BODY_ERROR)
    /\ UNCHANGED <<req, layer, user, startTime, out, trace,
                   proxiedCounter, responseTimeHistogram>>
    /\ UNCHANGED <<err, client>>
    /\ UNCHANGED process

\* the client closes its connection while an outbound request of its
\* request is in flight or its response is being streamed
ClientDisconnect(r) ==
    /\ client[r] = "connected"
    /\ \E i \in DOMAIN out[r] : out[r][i].state \in {"counted", "sent", "answered"}
    /\ client' = [client EXCEPT ![r] = "disconnected"]
    /\ UNCHANGED <<req, phase, layer, user, startTime, out, responses, trace,
                   proxiedCounter, responseTimeHistogram, body, err>>
    /\ UNCHANGED process

\* makeProxy registers nothing for a closed client: the proxy library
\* aborts the outbound request when it sees the inbound one aborted, after
\* which none of the proxy's events fires for it
Abort(r, i) ==
    /\ client[r] = "disconnected"
    /\ i \in DOMAIN out[r]
    /\ out[r][i].state \in {"counted", "sent", "answered"}
    /\ ~out[r][i].aborted
    /\ out' = [out EXCEPT ![r][i].aborted = TRUE]
    /\ trace' = [trace EXCEPT ![r] = Append(@, "abort")]
    /\ UNCHANGED <<req, phase, layer, user, startTime, responses,
                   proxiedCounter, responseTimeHistogram, body, err, client>>
    /\ UNCHANGED process

\* module load: the env() calls without a fallback throw on a missing
\* variable, which ends the process; otherwise app.listen
Startup ==
    /\ proc = "starting"
    /\ proc' = IF \E n \in RequiredEnv : EnvMissing(environ, n)
               THEN "exited" ELSE "listening"
    /\ UNCHANGED <<req, phase, layer, user, startTime, out, responses, trace,
                   proxiedCounter, responseTimeHistogram, body, err, client, environ>>

----------------------------------------------------------------------------
(* Specifications *)

\* what the gateway and the upstreams do with the request in slot r
Handle(r) ==
    \/ Cors(r)
    \/ Metrics(r)
    \/ Healthz(r)
    \/ Readyz(r)
    \/ EnterMount(r)
    \/ NotFound(r)
    \/ RequireAuth(r)
    \/ RequireRoleForWrite(r)
    \/ MountHandler(r)
    \/ \E i \in 1..2 : ProxyReq(r, i)
    \/ \E i \in 1..2 : Forward(r, i)
    \/ \E i \in 1..2 : ProxyError(r, i)
    \/ \E i \in 1..2 : ProxyRes(r, i)
    \/ ErrorHandler(r)

\* any request a client can send
ArriveAny(r) ==
    Arrive(r, Methods, Urls, Origins, Credentials, ClientTokens, ClientSubs)

\* the client of slot r goes away, and what the proxy library then does
Cancel(r) ==
    \/ ClientDisconnect(r)
    \/ \E i \in 1..2 : Abort(r, i)

\* one request, any input
Next ==
    \/ ArriveAny(1)
    \/ Handle(1)
    \/ Cancel(1)

Spec == Init /\ [][Next]_vars

\* requests for two of the backends, and the URLs outside the mounts
ConcUrls == {MOUNT_COURSES \o CHUNK_ID, MOUNT_LECTURES \o CHUNK_ID \o NEEDLE_NOTES}
OtherUrls == {PATH_HEALTHZ, PATH_READYZ, PATH_METRICS, PATH_OTHER}

FairUrls == ConcUrls \cup {MOUNT_VIDEOS \o CHUNK_ID} \cup OtherUrls

ArriveFair(r) ==
    Arrive(r, {"GET", "OPTIONS", "POST"}, FairUrls, Origins,
           {"none", "token-student", "token-professor"}, {NoHeader}, {NoHeader})

NextFair ==
    \/ ArriveFair(1)
    \/ Handle(1)

\* one request, over fewer inputs, its client staying connected: every step of the gateway that is enabled
\* is eventually taken, and an upstream that answers or refuses eventually
\* does so; no step exists for an upstream that stays silent, as makeProxy
\* sets neither timeout nor proxyTimeout
FairSpec == Init /\ [][NextFair]_vars /\ WF_vars(Handle(1))

\* requests that pass cors and authenticate, and requests that end before
\* any mount
ArriveConc(r) ==
    \/ Arrive(r, {"GET", "POST"}, ConcUrls, {NoHeader}, {"token-professor"},
              {NoHeader}, {NoHeader})
    \/ Arrive(r, {"GET"}, OtherUrls, {NoHeader, "http://evil.example"}, {"none"},
              {NoHeader}, {NoHeader})

\* MaxReq requests in flight at once, their clients staying connected
NextConc ==
    \E r \in Slots :
        \/ ArriveConc(r)
        \/ Handle(r)

SpecConc == Init /\ [][NextConc]_vars

\* the process starts under any environment
NextStartup == Startup

SpecStartup == InitStartup /\ [][NextStartup]_vars

----------------------------------------------------------------------------
(* Vocabulary of the properties *)

Arrived(r) == phase[r] # "idle"
Terminal(r) == phase[r] = "done"

\* the URL lies under a prefix
Under(url, prefix) ==
    /\ Len(url) >= Len(prefix)
    /\ SubSeq(url, 1, Len(prefix)) = prefix
    /\ Len(url) > Len(prefix) => url[Len(prefix) + 1] = "/"

\* the part of the URL after a prefix, "/" when there is none
SubPathAfter(url, prefix) ==
    IF Len(url) = Len(prefix) THEN <<"/">>
    ELSE [k \in 1..(Len(url) - Len(prefix)) |-> url[Len(prefix) + k]]

\* needle occurs in path, position by position
Occurs(path, needle) ==
    \E k \in 1..(Len(path) - Len(needle) + 1) :
        SubSeq(path, k, k + Len(needle) - 1) = needle

\* the outbound requests of slot r that were counted, written to the upstream
Dispatches(r) == {out[r][i] : i \in DOMAIN out[r]}
Counted(d) == d.state # "created"
Forwarded(d) == d.state \in {"sent", "answered"}

\* how many counted outbound requests of the slots in R carry a label
CountedBy(R, service, method) ==
    Cardinality({p \in R \X (1..2) :
                    /\ p[2] \in DOMAIN out[p[1]]
                    /\ Counted(out[p[1]][p[2]])
                    /\ Proxy[out[p[1]][p[2]].proxy].serviceName = service
                    /\ req[p[1]].method = method})

Before(tr, a, b) ==
    \A k \in DOMAIN tr : tr[k] = b => \E j \in 1..(k - 1) : tr[j] = a

----------------------------------------------------------------------------
(* C1 *)

GatedPrefixes == {MOUNT_COURSES, MOUNT_LECTURES, MOUNT_UPLOADS,
                  MOUNT_TRANSCRIPTIONS, MOUNT_USERS, MOUNT_FORUM}

Gated(url) == \E g \in GatedPrefixes : Under(url, g)

Unauthenticated(r) ==
    Arrived(r) /\ Gated(req[r].url) /\ req[r].cred \notin {"token-student", "token-professor"}

NeverDispatched(r) ==
    /\ out[r] = <<>>
    /\ trace[r] = <<>>
    /\ \A l \in CounterLabels :
          proxiedCounter[l] = CountedBy(Slots \ {r}, l[1], l[2])

\* C1 as stated: every request to a gated prefix without a valid credential
\* ends with 401, makes no upstream request and leaves the proxied-requests
\* counter unchanged for every label.
C1_AsStated ==
    \A r \in Slots :
        Unauthenticated(r) =>
            /\ NeverDispatched(r)
            /\ Terminal(r) => responses[r] = <<401>>

\* C1, amended: every request to a gated prefix without a valid credential
\* makes no upstream request and leaves the counter unchanged for every
\* label; its one response is 401 unless the cors middleware, which runs
\* first, answered it: 500 for an Origin off the allow-list, else 204 for
\* an OPTIONS request.
C1_Unauthenticated401 ==
    \A r \in Slots :
        Unauthenticated(r) =>
            /\ NeverDispatched(r)
            /\ Terminal(r) =>
                  responses[r] =
                      IF req[r].origin \notin {NoHeader} \cup CORS_ORIGINS THEN <<500>>
                      ELSE IF req[r].method = "OPTIONS" THEN <<204>>
                      ELSE <<401>>

C1_Witness ==
    \E r \in Slots :
        /\ Unauthenticated(r)
        /\ Terminal(r)
        /\ responses[r] = <<401>>

----------------------------------------------------------------------------
(* C2 *)

\* the backend the priority order '/upload', '/notes', '/transcribe',
\* default gives a sub-path
ExpectedLecturesBackend(path) ==
    IF Occurs(path, NEEDLE_UPLOAD) THEN "video-upload"
    ELSE IF Occurs(path, NEEDLE_NOTES) THEN "notes"
    ELSE IF Occurs(path, NEEDLE_TRANSCRIBE) THEN "transcriptions"
    ELSE "courses"

ExpectedLecturesTarget(path) ==
    IF Occurs(path, NEEDLE_UPLOAD) THEN "VIDEO_UPLOAD_URL"
    ELSE IF Occurs(path, NEEDLE_NOTES) THEN "NOTES_URL"
    ELSE IF Occurs(path, NEEDLE_TRANSCRIBE) THEN "TRANSCRIPTIONS_URL"
    ELSE "COURSES_URL"

Classified(r) ==
    /\ Under(req[r].url, MOUNT_LECTURES)
    /\ phase[r] \in {"proxying", "done"}
    /\ user[r] # NoUser

\* C2: an authenticated request under /api/lectures is given exactly one
\* backend, the first of '/upload' -> video-upload, '/notes' -> notes,
\* '/transcribe' -> transcriptions whose needle occurs (case-sensitively)
\* in the sub-path, else the default courses/lectures backend.
C2_LecturesPriority ==
    \A r \in Slots :
        Classified(r) =>
            LET path == SubPathAfter(req[r].url, MOUNT_LECTURES)
            IN  /\ Len(out[r]) = 1
                /\ Proxy[out[r][1].proxy].serviceName = ExpectedLecturesBackend(path)
                /\ Proxy[out[r][1].proxy].target = ExpectedLecturesTarget(path)

\* a path with both '/notes' and '/upload' went to video-upload, and one
\* with '/Notes' only went to the default backend
C2_Witness ==
    \E r \in Slots :
        /\ Classified(r)
        /\ req[r].url = MOUNT_LECTURES \o NEEDLE_NOTES \o NEEDLE_UPLOAD
        /\ out[r][1].proxy = "videoUploadProxy"

----------------------------------------------------------------------------
(* C3 *)

\* C3 as stated: on every request written to an upstream, x-internal-token
\* is the gateway's own value; a value sent by the client never goes out.
C3_AsStated ==
    \A r \in Slots :
        \A d \in Dispatches(r) :
            (Forwarded(d) /\ req[r].xInternalToken # NoHeader) =>
                d.xInternalToken # req[r].xInternalToken

----------------------------------------------------------------------------
(* C4 *)

RoleGatedPrefixes == {MOUNT_COURSES}

UnprivilegedWrite(r) ==
    /\ Arrived(r)
    /\ req[r].method \in {"POST", "PUT", "PATCH", "DELETE"}
    /\ \E g \in RoleGatedPrefixes : Under(req[r].url, g)
    /\ req[r].cred = "token-student"

\* C4 as stated: a write to a role-gated prefix by an authenticated
\* identity without the role ends with 403 and is never forwarded.
C4_AsStated ==
    \A r \in Slots :
        UnprivilegedWrite(r) =>
            /\ out[r] = <<>>
            /\ Terminal(r) => responses[r] = <<403>>

\* C4, amended: such a write is never forwarded, and its one response is
\* 403 unless the cors middleware, which runs first, rejected its Origin
\* (then 500).
C4_UnprivilegedWrite403 ==
    \A r \in Slots :
        UnprivilegedWrite(r) =>
            /\ out[r] = <<>>
            /\ Terminal(r) =>
                  responses[r] =
                      IF req[r].origin \notin {NoHeader} \cup CORS_ORIGINS THEN <<500>>
                      ELSE <<403>>

C4_Witness ==
    \E r \in Slots :
        /\ UnprivilegedWrite(r)
        /\ Terminal(r)
        /\ responses[r] = <<403>>

----------------------------------------------------------------------------
(* C5 *)

\* C5 as stated: a write under /api/courses or /api/lectures by an
\* authenticated identity whose role is not "professor" is rejected and
\* never forwarded to any backend.
C5_AsStated ==
    \A r \in Slots :
        ( /\ Arrived(r)
          /\ req[r].method \in {"POST", "PUT", "PATCH", "DELETE"}
          /\ Under(req[r].url, MOUNT_COURSES) \/ Under(req[r].url, MOUNT_LECTURES)
          /\ req[r].cred = "token-student" )
        => out[r] = <<>>

----------------------------------------------------------------------------
(* C6 *)

\* the mount prefix a URL lies under
MountOf(url) == CHOOSE m \in MountPrefixes : Under(url, m)

\* path is prefix followed by rest, and nothing more
IsConcat(path, prefix, rest) ==
    /\ Len(path) = Len(prefix) + Len(rest)
    /\ \A k \in 1..Len(prefix) : path[k] = prefix[k]
    /\ \A k \in 1..Len(rest) : path[Len(prefix) + k] = rest[k]

\* C6: for a target with an upstream prefix P and a request whose
\* mount-stripped sub-path is s, the upstream path is P followed by s, P
\* occurring once; /api/courses and /42 give /api/courses/42.
C6_PathRewriteOnce ==
    \A r \in Slots :
        \A d \in Dispatches(r) :
            Proxy[d.proxy].upstreamPrefix # <<>> =>
                /\ IsConcat(d.path, Proxy[d.proxy].upstreamPrefix,
                            SubPathAfter(req[r].url, MountOf(req[r].url)))
                /\ req[r].url = MOUNT_COURSES \o CHUNK_ID =>
                      d.path = <<"/", "a", "p", "i", "/", "c", "o", "u", "r", "s", "e", "s",
                                 "/", "4", "2">>

C6_Witness ==
    \E r \in Slots :
        \E d \in Dispatches(r) :
            /\ d.proxy = "coursesProxy"
            /\ req[r].url = MOUNT_COURSES \o CHUNK_ID
            /\ Forwarded(d)

----------------------------------------------------------------------------
(* C7 *)

GatewayErrors == {502, 504}

\* C7 as stated: a request dispatched to an upstream that refuses the
\* connection or never answers eventually gets a 502/504 response, and is
\* never answered with another status.
C7_AsStated ==
    \A r \in Slots :
        /\ (\E d \in Dispatches(r) : Counted(d) /\ d.mode \in {"refuses", "silent"})
               ~> (\E k \in DOMAIN responses[r] : responses[r][k] \in GatewayErrors)
        /\ [](\A d \in Dispatches(r) :
                 d.mode \in {"refuses", "silent"} =>
                     \A k \in DOMAIN responses[r] : responses[r][k] \in GatewayErrors)

----------------------------------------------------------------------------
(* C8 *)

\* C8 as stated: every inbound request gets exactly one terminal response:
\* never two, and eventually one.
C8_AsStated ==
    \A r \in Slots :
        /\ [](Len(responses[r]) <= 1)
        /\ Arrived(r) ~> (Len(responses[r]) = 1)

----------------------------------------------------------------------------
(* C9 *)

\* how many outbound requests of all slots were answered under a label
AnsweredWith(service, method, status) ==
    Cardinality({p \in Slots \X (1..2) :
                    /\ p[2] \in DOMAIN out[p[1]]
                    /\ out[p[1]][p[2]].state = "answered"
                    /\ out[p[1]][p[2]].status = status
                    /\ Proxy[out[p[1]][p[2]].proxy].serviceName = service
                    /\ req[p[1]].method = method})

\* C9: per request, the start time is taken and the counter incremented
\* (under the target's service name and the request's method) before the
\* request is written to the upstream, and the histogram is observed only
\* after the upstream's response headers arrived; requests in flight
\* together interleave freely.
C9_MetricsOrder ==
    /\ \A r \in Slots :
          /\ Before(trace[r], "inc", "forward")
          /\ Before(trace[r], "startTime", "forward")
          /\ Before(trace[r], "forward", "resHeaders")
          /\ Before(trace[r], "resHeaders", "observe")
          /\ \A d \in Dispatches(r) :
                Forwarded(d) =>
                    /\ startTime[r] = "set"
                    /\ proxiedCounter[<<Proxy[d.proxy].serviceName, req[r].method>>] >= 1
    /\ \A h \in HistogramLabels :
          responseTimeHistogram[h] = AnsweredWith(h[1], h[2], h[3])

\* one request is answered and observed while another is counted but not
\* yet written to its upstream
C9_Witness ==
    \E r1, r2 \in Slots :
        /\ r1 # r2
        /\ \E k \in DOMAIN trace[r1] : trace[r1][k] = "observe"
        /\ \E d \in Dispatches(r2) : d.state = "counted"

----------------------------------------------------------------------------
(* C10 *)

RECURSIVE SumOver(_, _)
SumOver(f, S) ==
    IF S = {} THEN 0
    ELSE LET x == CHOOSE y \in S : TRUE
         IN  f[x] + SumOver(f, S \ {x})

AllDispatched ==
    \A r \in Slots : \E d \in Dispatches(r) : Counted(d)

\* C10: whatever the interleaving, each (service, method) counter equals
\* the number of requests dispatched to that service with that method, and
\* once all MaxReq requests are dispatched the counters sum to MaxReq.
C10_NoLostUpdate ==
    /\ \A l \in CounterLabels :
          proxiedCounter[l] = CountedBy(Slots, l[1], l[2])
    /\ AllDispatched => SumOver(proxiedCounter, CounterLabels) = MaxReq

\* all requests are dispatched, two of them under the same label
C10_Witness ==
    /\ AllDispatched
    /\ \E l \in CounterLabels : proxiedCounter[l] >= 2

----------------------------------------------------------------------------
(* C11 *)

\* how often an event occurs in a trace
Count(tr, e) == Cardinality({k \in DOMAIN tr : tr[k] = e})

----------------------------------------------------------------------------
(* C12 *)

HealthCheck(r) ==
    Arrived(r) /\ req[r].method = "GET" /\ req[r].url = PATH_HEALTHZ

\* C12 as stated: GET /healthz is answered 200 "OK" whatever its headers,
\* and no upstream is called for it.
C12_AsStated ==
    \A r \in Slots :
        HealthCheck(r) =>
            /\ out[r] = <<>>
            /\ Terminal(r) => (responses[r] = <<200>> /\ body[r] = "OK")

\* C12, amended: GET /healthz never calls an upstream, and is answered 200
\* "OK" whenever its Origin header is absent or on the allow-list; with any
\* other Origin the cors middleware, which runs first, has it answered 500
\* with the generic error body.
C12_HealthzUnlessCors ==
    \A r \in Slots :
        HealthCheck(r) =>
            /\ out[r] = <<>>
            /\ trace[r] = <<>>
            /\ Terminal(r) =>
                  IF req[r].origin \in {NoHeader} \cup CORS_ORIGINS
                  THEN responses[r] = <<200>> /\ body[r] = "OK"
                  ELSE responses[r] = <<500>> /\ body[r] = BODY_ERROR

C12_Witness ==
    \E r \in Slots :
        /\ HealthCheck(r)
        /\ Terminal(r)
        /\ req[r].origin = NoHeader
        /\ req[r].cred = "none"
        /\ responses[r] = <<200>>

----------------------------------------------------------------------------
(* C13 *)

BackendUrlVars == {"COURSES_URL", "NOTES_URL", "USERS_URL", "TRANSCRIPTIONS_URL",
                   "VIDEO_UPLOAD_URL", "FORUM_URL"}

\* C13 as stated: the process ends at startup exactly when a backend base
\* URL is missing; a missing internal token, CORS origin list or port does
\* not prevent startup.
C13_AsStated ==
    proc # "starting" =>
        (proc = "exited" <=> \E n \in BackendUrlVars : environ[n] # "set")

----------------------------------------------------------------------------
(* C14 *)

\* C14: an error passed on in the pipeline of a request is answered by the
\* error middleware with 500 and the fixed generic body, whatever the
\* error; nothing is forwarded for the request and the process goes on
\* listening.
C14_ErrorsBecome500 ==
    \A r \in Slots :
        err[r] # "" =>
            /\ phase[r] \in {"error", "done"}
            /\ out[r] = <<>>
            /\ proc = "listening"
            /\ Terminal(r) =>
                  /\ responses[r] = <<500>>
                  /\ body[r] = "{\"error\":\"Internal server error\"}"
                  /\ body[r] # err[r]

\* one request ended in the error middleware and another was served
C14_Witness ==
    \E r1, r2 \in Slots :
        /\ err[r1] = "Not allowed by CORS"
        /\ responses[r1] = <<500>>
        /\ err[r2] = ""
        /\ responses[r2] = <<200>>

----------------------------------------------------------------------------
(* C15 *)

\* C15: a request is handled by the first registered mount it lies under
\* and by no later one, makes at most one outbound request, is not sent
\* again after a failure, and so adds at most 1 to the counter.
C15_AtMostOneDispatch ==
    \A r \in Slots :
        /\ Len(out[r]) <= 1
        /\ Count(trace[r], "inc") <= 1
        /\ Count(trace[r], "forward") <= 1
        /\ \A l \in CounterLabels :
              proxiedCounter[l] <= Cardinality({q \in Slots : out[q] # <<>>})
        /\ layer[r] # 0 =>
              /\ Under(req[r].url, Stack[layer[r]].mount)
              /\ \A j \in 1..(layer[r] - 1) : ~Under(req[r].url, Stack[j].mount)

\* a request under /api/transcriptions failed at its upstream: it stayed at
\* the first of the two mounts and was counted once
C15_Witness ==
    \E r \in Slots :
        /\ Under(req[r].url, MOUNT_TRANSCRIPTIONS)
        /\ layer[r] = 4
        /\ Len(out[r]) = 1
        /\ out[r][1].state = "failed"
        /\ responses[r] = <<504>>
        /\ Count(trace[r], "inc") = 1

----------------------------------------------------------------------------
(* C16 *)

BothVariants(url) == Under(url, MOUNT_COURSES) \/ Under(url, MOUNT_USERS)

\* C16 as stated: under /api/courses and /api/users the static rewrite and
\* the dynamic rewrite give the same upstream path, which is the original
\* inbound path.
C16_AsStated ==
    \A r \in Slots :
        \A d \in Dispatches(r) :
            BothVariants(req[r].url) =>
                /\ d.path = PathRewriteDynamic(MountOf(req[r].url),
                                               SubPathAfter(req[r].url, MountOf(req[r].url)))
                /\ d.path = req[r].url

\* C16, amended: under /api/courses and /api/users the two rewrites give
\* the same upstream path; it is the original inbound path, except for a
\* request to the bare mount prefix, where both give the prefix followed
\* by "/".  A target's rule is the same through every mount: a target
\* without an upstream prefix gets the mount-stripped path.
C16_RewritesAgree ==
    \A r \in Slots :
        \A d \in Dispatches(r) :
            LET mount == MountOf(req[r].url)
                sub == SubPathAfter(req[r].url, mount)
            IN  /\ BothVariants(req[r].url) =>
                      /\ d.path = PathRewriteDynamic(mount, sub)
                      /\ req[r].url # mount => d.path = req[r].url
                      /\ req[r].url = mount => d.path = Append(req[r].url, "/")
                /\ d.proxy \in {"transcriptionsProxy", "videoUploadProxy"} =>
                      d.path = sub

C16_Witness ==
    \E r \in Slots :
        \E d \in Dispatches(r) :
            /\ req[r].url = MOUNT_USERS
            /\ d.path = Append(MOUNT_USERS, "/")
            /\ Forwarded(d)

----------------------------------------------------------------------------
(* C17 *)

\* C17 as stated: on every request written to an upstream, x-user-sub is
\* present only when the request has a verified identity, and is then that
\* identity's subject.
C17_AsStated ==
    \A r \in Slots :
        \A d \in Dispatches(r) :
            (Forwarded(d) /\ d.xUserSub # NoHeader) =>
                /\ user[r] # NoUser
                /\ d.xUserSub = user[r].sub

----------------------------------------------------------------------------
(* C18 *)

\* the observations recorded under a service and method, over all statuses
ObservedFor(service, method) ==
    SumOver([st \in UpstreamStatuses |-> responseTimeHistogram[<<service, method, st>>]],
            UpstreamStatuses)

\* C18: for every service and method, the observations over all statuses
\* never exceed the proxied-requests counter; a request is observed at most
\* once, and only after it was counted.
C18_ObservedAtMostCounted ==
    /\ \A l \in CounterLabels : ObservedFor(l[1], l[2]) <= proxiedCounter[l]
    /\ \A r \in Slots :
          /\ Count(trace[r], "observe") <= 1
          /\ Before(trace[r], "inc", "observe")

\* two requests under one label were answered, with different statuses
C18_Witness ==
    \E l \in CounterLabels :
        /\ proxiedCounter[l] = 2
        /\ responseTimeHistogram[<<l[1], l[2], 200>>] = 1
        /\ responseTimeHistogram[<<l[1], l[2], 404>>] = 1

====
